---- MODULE Spec2Model ----
(***************************************************************************)
(* Model of the go-filecoin `init` command (cmd/go-filecoin/init.go):      *)
(* repository creation, genesis resolution from a content-addressed        *)
(* archive, init directive construction, config synthesis and the final    *)
(* node bootstrap.                                                         *)
(*                                                                         *)
(* Four specifications share the variables and the actions:                *)
(*   Spec         the whole command (initCmd.Run), representative inputs   *)
(*   SpecGenesis  loadGenesis / extractGenesisBlock over every archive     *)
(*                within the bounds                                        *)
(*   SpecOpts     getNodeInitOpts over every key file within the bounds    *)
(*   SpecSynth    setConfigFromOptions over every option map and prior     *)
(*                Config within the value sets                             *)
(***************************************************************************)
EXTENDS Integers, Sequences, FiniteSets, TLC

(***************************************************************************)
(* Bounds                                                                  *)
(***************************************************************************)
NumCids == 3
MaxParents == 2
MaxRoots == 2
MaxKeys == 3

(***************************************************************************)
(* Generic helpers                                                         *)
(***************************************************************************)
\* Sequences over S of length at most n.
SeqsUpTo(S, n) == UNION {[1..k -> S] : k \in 0..n}

\* Sequences without repeated elements.
NoDup(s) == \A i, j \in 1..Len(s) : i # j => s[i] # s[j]

\* An optional value: <<>> when absent, <<v>> when present.
Opt(S) == {<<>>} \cup {<<v>> : v \in S}
Has(o) == o # <<>>
Val(o) == o[1]

(***************************************************************************)
(* Blocks, block store, archive                                            *)
(***************************************************************************)
Cids == 1..NumCids

\* block.UndefTipSet.Key(): the empty tipset key.
UndefTipSetKey == <<>>

\* Raw bytes held under a CID: either bytes that decode to a block with
\* the given Parents key, or bytes that do not decode.  Content addressing
\* makes parent links acyclic, so CIDs are numbered in creation order: a
\* block refers only to CIDs smaller than its own.
RawBlocks(c) ==
    {[decodes |-> FALSE, parents |-> UndefTipSetKey]} \cup
    {[decodes |-> TRUE, parents |-> p] :
        p \in {s \in SeqsUpTo(1..(c - 1), MaxParents) : NoDup(s)}}

\* Block stores: partial maps from CID to raw bytes.
BlockStores ==
    UNION {{f \in [D -> UNION {RawBlocks(c) : c \in Cids}] :
                \A c \in D : f[c] \in RawBlocks(c)} : D \in SUBSET Cids}

EmptyStore == [c \in {} |-> [decodes |-> FALSE, parents |-> UndefTipSetKey]]

\* An archive byte stream: malformed or well formed, with its declared
\* roots and the blocks it carries (for a malformed stream, the blocks
\* decoded before the defect).
Archives ==
    {[valid |-> TRUE, roots |-> r, blocks |-> b] :
        r \in SeqsUpTo(Cids, MaxRoots), b \in BlockStores} \cup
    {[valid |-> FALSE, roots |-> <<>>, blocks |-> b] : b \in BlockStores}

\* bs.Put of every block of b into s.
PutMany(s, b) ==
    [c \in DOMAIN s \cup DOMAIN b |-> IF c \in DOMAIN b THEN b[c] ELSE s[c]]

\* car.LoadCar(bs, source): header first, then the blocks.
LoadCar(s, a) ==
    IF ~a.valid
    THEN [err |-> "MalformedArchive", bs |-> PutMany(s, a.blocks), roots |-> <<>>]
    ELSE IF a.roots = <<>>
    THEN [err |-> "MissingRootBlock", bs |-> s, roots |-> <<>>]
    ELSE [err |-> "ok", bs |-> PutMany(s, a.blocks), roots |-> a.roots]

\* bs.Get(c) followed by block.DecodeBlock(raw).
GetBlock(s, c) ==
    IF c \notin DOMAIN s THEN "SourceUnavailable"
    ELSE IF ~s[c].decodes THEN "DecodeFailure"
    ELSE "ok"

\* cur.Parents.Equals(block.UndefTipSet.Key())
ParentsUndef(s, c) == s[c].parents = UndefTipSetKey

\* Variant of FirstParent that follows the last CID of the parent key.
LastParent(s, c) == s[c].parents[Len(s[c].parents)]

\* cur.Parents.ToSlice()[0]
FirstParent(s, c) == s[c].parents[1]

(***************************************************************************)
(* Genesis source names                                                    *)
(***************************************************************************)
\* The genesis-file option values considered: none, HTTP(S) URLs, a URL of
\* another scheme, a plain path, and a string url.Parse rejects.
SourceNames ==
    {"", "http://host/genesis.car", "https://host/genesis.car",
     "ftp://host/genesis.car", "genesis.car", "%zz"}

\* url.Parse(sourceName): the parse error and the Scheme field.
UrlParse(name) ==
    CASE name = "%zz" -> [err |-> "InvalidURL", scheme |-> ""]
      [] name = "http://host/genesis.car" -> [err |-> "ok", scheme |-> "http"]
      [] name = "https://host/genesis.car" -> [err |-> "ok", scheme |-> "https"]
      [] name = "ftp://host/genesis.car" -> [err |-> "ok", scheme |-> "ftp"]
      [] OTHER -> [err |-> "ok", scheme |-> ""]

\* Variant of openGenesisSource that takes only the http scheme for a
\* network source.
openGenesisSourceHttpOnly(name, reachable) ==
    LET u == UrlParse(name) IN
    IF u.err # "ok" THEN [err |-> "InvalidURL", kind |-> "none", via |-> "none"]
    ELSE IF u.scheme = "http"
    THEN IF reachable THEN [err |-> "ok", kind |-> "http", via |-> "http"]
         ELSE [err |-> "SourceUnavailable", kind |-> "none", via |-> "http"]
    ELSE IF u.scheme # ""
    THEN [err |-> "UnsupportedScheme", kind |-> "none", via |-> "none"]
    ELSE IF reachable THEN [err |-> "ok", kind |-> "file", via |-> "file"]
         ELSE [err |-> "SourceUnavailable", kind |-> "none", via |-> "file"]

\* openGenesisSource(sourceName); reachable tells whether http.Get or
\* os.Open of the name succeeds.  kind is the stream handed back, via the
\* call that was made to get one (http.Get, os.Open or neither).
openGenesisSource(name, reachable) ==
    LET u == UrlParse(name) IN
    IF u.err # "ok" THEN [err |-> "InvalidURL", kind |-> "none", via |-> "none"]
    ELSE IF u.scheme = "http" \/ u.scheme = "https"
    THEN IF reachable THEN [err |-> "ok", kind |-> "http", via |-> "http"]
         ELSE [err |-> "SourceUnavailable", kind |-> "none", via |-> "http"]
    ELSE IF u.scheme # ""
    THEN [err |-> "UnsupportedScheme", kind |-> "none", via |-> "none"]
    ELSE IF reachable THEN [err |-> "ok", kind |-> "file", via |-> "file"]
         ELSE [err |-> "SourceUnavailable", kind |-> "none", via |-> "file"]

(***************************************************************************)
(* Key files and init directives                                           *)
(***************************************************************************)
PeerKeys == {"p1"}
WalletKeys == {"k1", "k2"}

\* Content found at the peer key path: no readable file, bytes that are
\* not a private key, or a private key.
PeerFiles == {"unreadable", "badkey"} \cup PeerKeys

\* Content found at the wallet key path: no openable file, bytes that are
\* not JSON, the JSON value null, or an object whose KeyInfo list is keys.
WalletFiles ==
    {[kind |-> k, keys |-> <<>>] : k \in {"unopenable", "badjson", "null"}} \cup
    {[kind |-> "keyinfo", keys |-> ks] : ks \in SeqsUpTo(WalletKeys, MaxKeys)}

PeerKeyOpt(k) == [op |-> "PeerKey", key |-> k]
DefaultKeyOpt(k) == [op |-> "DefaultKey", key |-> k]
ImportKeyOpt(k) == [op |-> "ImportKey", key |-> k]

\* init.go 209-219: the peer key part of getNodeInitOpts.
PeerKeyPart(peerKeyFile, peerFile) ==
    IF peerKeyFile = "" THEN [err |-> "ok", opts |-> <<>>]
    ELSE IF peerFile = "unreadable"
    THEN [err |-> "KeyFileUnreadable", opts |-> <<>>]
    ELSE IF peerFile = "badkey"
    THEN [err |-> "KeyImportFailure", opts |-> <<>>]
    ELSE [err |-> "ok", opts |-> <<PeerKeyOpt(peerFile)>>]

\* init.go 232-234: the first entry, if any, becomes the default key.
DefaultKeyPart(keys) ==
    IF Len(keys) > 0 THEN <<DefaultKeyOpt(keys[1])>> ELSE <<>>

\* init.go 236: wir.KeyInfo[1:] is a run-time panic when the list is empty.
TailPanics(keys) == Len(keys) < 1

\* Variant of ImportKeyPart that ranges over the whole list, not its tail.
ImportKeyPartFromFirst(keys) ==
    [i \in 1..Len(keys) |-> ImportKeyOpt(keys[i])]

\* init.go 236-238: every later entry becomes an import directive.
ImportKeyPart(keys) ==
    [i \in 1..(Len(keys) - 1) |-> ImportKeyOpt(keys[i + 1])]

\* init.go 221-239: the wallet part of getNodeInitOpts.  handleOpen tells
\* whether the handle os.Open handed back is still open on return: the
\* function never closes it.
WalletKeyPart(walletKeyFile, walletFile) ==
    IF walletKeyFile = ""
    THEN [err |-> "ok", opts |-> <<>>, handleOpen |-> FALSE]
    ELSE IF walletFile.kind = "unopenable"
    THEN [err |-> "KeyFileUnreadable", opts |-> <<>>,
          handleOpen |-> FALSE]
    ELSE IF walletFile.kind = "badjson"
    THEN [err |-> "KeyImportFailure", opts |-> <<>>,
          handleOpen |-> TRUE]
    ELSE IF walletFile.kind = "null"
    THEN [err |-> "panic", opts |-> <<>>, handleOpen |-> TRUE]
    ELSE IF TailPanics(walletFile.keys)
    THEN [err |-> "panic", opts |-> DefaultKeyPart(walletFile.keys),
          handleOpen |-> TRUE]
    ELSE [err |-> "ok",
          opts |-> DefaultKeyPart(walletFile.keys) \o ImportKeyPart(walletFile.keys),
          handleOpen |-> TRUE]

\* getNodeInitOpts(peerKeyFile, walletKeyFile): on an error the directive
\* list handed back is nil.
getNodeInitOpts(peerKeyFile, peerFile, walletKeyFile, walletFile) ==
    LET p == PeerKeyPart(peerKeyFile, peerFile)
        w == WalletKeyPart(walletKeyFile, walletFile)
    IN  IF p.err # "ok"
        THEN [err |-> p.err, opts |-> <<>>, handleOpen |-> FALSE]
        ELSE IF w.err # "ok"
        THEN [err |-> w.err, opts |-> <<>>,
              handleOpen |-> w.handleOpen]
        ELSE [err |-> "ok", opts |-> p.opts \o w.opts,
              handleOpen |-> w.handleOpen]

(***************************************************************************)
(* Config and config synthesis                                             *)
(***************************************************************************)
\* address.Undef
Undef == "Undef"

\* Strings offered as addresses, and address.NewFromString on them: the
\* empty string decodes to address.Undef without an error.
AddrStrings == {"", "t01", "t02", "zz"}

NewFromString(str) ==
    CASE str = "" -> [addr |-> Undef, err |-> "ok"]
      [] str = "t01" -> [addr |-> "ID(1)", err |-> "ok"]
      [] str = "t02" -> [addr |-> "ID(2)", err |-> "ok"]
      [] OTHER -> [addr |-> Undef, err |-> "InvalidAddress"]

\* networks.InteropNet and networks.TestNet
InteropNet ==
    [Bootstrap |-> "interop.Bootstrap", Drand |-> "interop.Drand",
     Network |-> "interop.Network"]
TestNet ==
    [Bootstrap |-> "testnet.Bootstrap", Drand |-> "testnet.Drand",
     Network |-> "testnet.Network"]

\* config.NewDefaultConfig()
NewDefaultConfig ==
    [RootDirPath |-> "default.sectors", PreSealedSectorsDirPath |-> "",
     MinerAddress |-> Undef, AutoSealIntervalSeconds |-> 120,
     Bootstrap |-> "default.Bootstrap", Drand |-> "default.Drand",
     NetworkParams |-> "default.Network"]

\* The options setConfigFromOptions reads, each absent or present.
ConfigOptions ==
    [sectorDir : Opt({"/sectors"}),
     withMiner : Opt(AddrStrings),
     autoSealIntervalSeconds : Opt({0, 120}),
     minerActorAddress : Opt(AddrStrings),
     presealedSectorDir : Opt({"/presealed"}),
     network : Opt({"", "interop", "testnet", "mainnet"})]

NoConfigOptions ==
    [sectorDir |-> <<>>, withMiner |-> <<>>, autoSealIntervalSeconds |-> <<>>,
     minerActorAddress |-> <<>>, presealedSectorDir |-> <<>>, network |-> <<>>]

Ok(c) == [cfg |-> c, err |-> "ok"]

\* Variant of setSectorDir that assigns the field whether or not the
\* option is there, the empty string when it is not.
setSectorDirAlways(c, o) ==
    Ok([c EXCEPT !.RootDirPath =
            IF Has(o.sectorDir) THEN Val(o.sectorDir) ELSE ""])

\* init.go 111-113
setSectorDir(c, o) ==
    IF Has(o.sectorDir)
    THEN Ok([c EXCEPT !.RootDirPath = Val(o.sectorDir)])
    ELSE Ok(c)

\* init.go 115-119: the address field is assigned even when parsing fails.
setWithMiner(c, o) ==
    IF Has(o.withMiner)
    THEN LET p == NewFromString(Val(o.withMiner))
         IN  [cfg |-> [c EXCEPT !.MinerAddress = p.addr], err |-> p.err]
    ELSE Ok(c)

\* init.go 121-123
setAutoSeal(c, o) ==
    IF Has(o.autoSealIntervalSeconds)
    THEN Ok([c EXCEPT !.AutoSealIntervalSeconds = Val(o.autoSealIntervalSeconds)])
    ELSE Ok(c)

\* init.go 125-129
setMinerActorAddress(c, o) ==
    IF Has(o.minerActorAddress)
    THEN LET p == NewFromString(Val(o.minerActorAddress))
         IN  [cfg |-> [c EXCEPT !.MinerAddress = p.addr], err |-> p.err]
    ELSE Ok(c)

\* Variant of setPresealedSectorDir without the miner address check.
setPresealedUnchecked(c, o) ==
    IF Has(o.presealedSectorDir)
    THEN Ok([c EXCEPT !.PreSealedSectorsDirPath = Val(o.presealedSectorDir)])
    ELSE Ok(c)

\* init.go 131-137
setPresealedSectorDir(c, o) ==
    IF Has(o.presealedSectorDir)
    THEN IF c.MinerAddress = Undef
         THEN [cfg |-> c, err |-> "PresealedNeedsMiner"]
         ELSE Ok([c EXCEPT !.PreSealedSectorsDirPath = Val(o.presealedSectorDir)])
    ELSE Ok(c)

\* init.go 139: netName, _ := options[Network].(string)
NetName(o) == IF Has(o.network) THEN Val(o.network) ELSE ""

\* Variant of setNetwork whose testnet branch takes the drand preset of
\* the interop network.
setNetworkDrandMixup(c, o) ==
    IF NetName(o) = "interop"
    THEN Ok([c EXCEPT !.Bootstrap = InteropNet.Bootstrap,
                      !.Drand = InteropNet.Drand,
                      !.NetworkParams = InteropNet.Network])
    ELSE IF NetName(o) = "testnet"
    THEN Ok([c EXCEPT !.Bootstrap = TestNet.Bootstrap,
                      !.Drand = InteropNet.Drand,
                      !.NetworkParams = TestNet.Network])
    ELSE IF NetName(o) # ""
    THEN [cfg |-> c, err |-> "UnknownNetwork"]
    ELSE Ok(c)

\* init.go 141-152
setNetwork(c, o) ==
    IF NetName(o) = "interop"
    THEN Ok([c EXCEPT !.Bootstrap = InteropNet.Bootstrap,
                      !.Drand = InteropNet.Drand,
                      !.NetworkParams = InteropNet.Network])
    ELSE IF NetName(o) = "testnet"
    THEN Ok([c EXCEPT !.Bootstrap = TestNet.Bootstrap,
                      !.Drand = TestNet.Drand,
                      !.NetworkParams = TestNet.Network])
    ELSE IF NetName(o) # ""
    THEN [cfg |-> c, err |-> "UnknownNetwork"]
    ELSE Ok(c)

\* Variant of setConfigFromOptions that applies miner-actor-address
\* before with-miner.
setConfigWithMinerLast(c, o) ==
    LET r1 == setSectorDir(c, o)
        r2 == IF r1.err # "ok" THEN r1 ELSE setMinerActorAddress(r1.cfg, o)
        r3 == IF r2.err # "ok" THEN r2 ELSE setAutoSeal(r2.cfg, o)
        r4 == IF r3.err # "ok" THEN r3 ELSE setWithMiner(r3.cfg, o)
        r5 == IF r4.err # "ok" THEN r4 ELSE setPresealedSectorDir(r4.cfg, o)
    IN  IF r5.err # "ok" THEN r5 ELSE setNetwork(r5.cfg, o)

\* setConfigFromOptions(cfg, options): the blocks of the function in
\* program order, each returning at once on its error.  The value is the
\* Config as the call leaves it (it is updated in place) and the error.
setConfigFromOptions(c, o) ==
    LET r1 == setSectorDir(c, o)
        r2 == IF r1.err # "ok" THEN r1 ELSE setWithMiner(r1.cfg, o)
        r3 == IF r2.err # "ok" THEN r2 ELSE setAutoSeal(r2.cfg, o)
        r4 == IF r3.err # "ok" THEN r3 ELSE setMinerActorAddress(r3.cfg, o)
        r5 == IF r4.err # "ok" THEN r4 ELSE setPresealedSectorDir(r4.cfg, o)
    IN  IF r5.err # "ok" THEN r5 ELSE setNetwork(r5.cfg, o)

\* The error kinds the design groups under InvalidOption.
InvalidOption == {"InvalidAddress", "PresealedNeedsMiner", "UnknownNetwork"}

(***************************************************************************)
(* State                                                                   *)
(***************************************************************************)
VARIABLES
    req,        \* req.Options: the options of the request
    env,        \* what the request finds outside: files, network, archive
    pc,         \* the call of initCmd.Run that runs next
    result,     \* what the command returned: "none" while it runs
    steps,      \* the calls of Run made so far, each with its error
    sourceTried,\* how the archive source was asked for: "http", "file"
                \* or, when no call was made for one, "none"
    open,       \* resources currently held open
    acquired,   \* resources opened at some point
    persisted,  \* the Config in the repository's config file, if any
    cfg,        \* the repository's in-memory Config (rep.Config())
    bs,         \* the block store over rep.Datastore()
    roots,      \* ch.Roots
    cur,        \* CID of the block the walk is at; 0 before the walk
    hops,       \* parent hops made by the walk
    gif,        \* the genesis.InitFunc resolved by loadGenesis
    initOpts    \* the init directives built by getNodeInitOpts

vars == <<req, env, pc, result, steps, sourceTried, open, acquired,
          persisted, cfg, bs, roots, cur, hops, gif, initOpts>>

\* The calls of initCmd.Run, in program order (init.go 53-100).
RunOrder ==
    <<"GetRepoPath", "Emit", "InitFSRepo", "OpenFSRepo", "loadGenesis",
      "getNodeInitOpts", "setConfigFromOptions", "setDrandConfig",
      "ReplaceConfig", "nodeInit">>

IndexOf(step) == CHOOSE i \in 1..Len(RunOrder) : RunOrder[i] = step

\* The call made after step when it succeeds; "done" after the last.
Following(step) ==
    IF IndexOf(step) = Len(RunOrder) THEN "done"
    ELSE RunOrder[IndexOf(step) + 1]

\* Variant of After in which the error of setDrandConfig is not checked.
AfterIgnoringDrandError(step, err) ==
    IF err # "ok" /\ step # "setDrandConfig" THEN "done" ELSE Following(step)

\* Variant of After in which the error of getNodeInitOpts is not checked.
AfterIgnoringInitOptsError(step, err) ==
    IF err # "ok" /\ step # "getNodeInitOpts" THEN "done" ELSE Following(step)

\* Where Run goes after step returned err: every call is followed by
\* `if err != nil { return err }`, the last by `return nil`.
After(step, err) == IF err # "ok" THEN "done" ELSE Following(step)

\* Run finishes a call: record it, go on or return, and on return run
\* the deferred closes (rep.Close of Run, source.Close of loadGenesis).
Finish(step, err) ==
    LET nxt == After(step, err) IN
    /\ steps' = Append(steps, [name |-> step, err |-> err])
    /\ pc' = nxt
    /\ result' = IF nxt = "done" THEN err ELSE result

\* The resources still open once the deferred closes have run.
AfterDefers(held, nxt) ==
    IF nxt = "done" THEN held \ {"repo", "source"} ELSE held

NoGif == [kind |-> "none", blk |-> 0]

\* A call panics: Run unwinds, running its deferred closes on the way.
Panic(step) ==
    /\ steps' = Append(steps, [name |-> step, err |-> "panic"])
    /\ pc' = "done"
    /\ result' = "panic"
    /\ open' = open \ {"repo", "source"}

(***************************************************************************)
(* initCmd.Run                                                             *)
(***************************************************************************)
\* init.go 52-56: paths.GetRepoPath
GetRepoPath ==
    /\ pc = "GetRepoPath"
    /\ \E err \in {"ok", "ErrRepoPath"} :
          /\ Finish("GetRepoPath", err)
          /\ open' = AfterDefers(open, After("GetRepoPath", err))
    /\ UNCHANGED <<req, env, sourceTried, acquired, persisted, cfg, bs, roots, cur, hops,
                   gif, initOpts>>

\* init.go 58-60: re.Emit(repoDir)
Emit ==
    /\ pc = "Emit"
    /\ \E err \in {"ok", "ErrEmit"} :
          /\ Finish("Emit", err)
          /\ open' = AfterDefers(open, After("Emit", err))
    /\ UNCHANGED <<req, env, sourceTried, acquired, persisted, cfg, bs, roots, cur, hops,
                   gif, initOpts>>

\* init.go 61-63: repo.InitFSRepo writes the default Config.
InitFSRepo ==
    /\ pc = "InitFSRepo"
    /\ \E err \in {"ok", "ErrInitRepo"} :
          /\ Finish("InitFSRepo", err)
          /\ open' = AfterDefers(open, After("InitFSRepo", err))
          /\ persisted' = IF err = "ok" THEN <<NewDefaultConfig>> ELSE persisted
    /\ UNCHANGED <<req, env, sourceTried, acquired, cfg, bs, roots, cur, hops, gif, initOpts>>

\* init.go 64-69: repo.OpenFSRepo and the deferred rep.Close.
OpenFSRepo ==
    /\ pc = "OpenFSRepo"
    /\ \E err \in {"ok", "ErrOpenRepo"} :
          /\ Finish("OpenFSRepo", err)
          /\ open' = IF err = "ok"
                     THEN AfterDefers(open \cup {"repo"}, After("OpenFSRepo", err))
                     ELSE AfterDefers(open, After("OpenFSRepo", err))
          /\ acquired' = IF err = "ok" THEN acquired \cup {"repo"} ELSE acquired
          /\ cfg' = IF err = "ok" THEN persisted[1] ELSE cfg
    /\ UNCHANGED <<req, env, sourceTried, persisted, bs, roots, cur, hops, gif, initOpts>>

(***************************************************************************)
(* loadGenesis and extractGenesisBlock                                     *)
(***************************************************************************)
\* init.go 71-72, 183-192: the empty source name selects the local
\* generator; any other name is opened.
LoadGenesis ==
    /\ pc = "loadGenesis"
    /\ IF req.genesisFile = ""
       THEN /\ gif' = [kind |-> "gengen", blk |-> 0]
            /\ Finish("loadGenesis", "ok")
            /\ open' = AfterDefers(open, After("loadGenesis", "ok"))
            /\ UNCHANGED acquired
       ELSE LET src == openGenesisSource(req.genesisFile, env.reachable) IN
            IF src.err # "ok"
            THEN /\ Finish("loadGenesis", src.err)
                 /\ open' = AfterDefers(open, After("loadGenesis", src.err))
                 /\ UNCHANGED <<gif, acquired>>
            ELSE /\ pc' = "LoadCar"
                 /\ open' = open \cup {"source"}
                 /\ acquired' = acquired \cup {"source"}
                 /\ UNCHANGED <<gif, steps, result>>
    /\ sourceTried' = IF req.genesisFile = "" THEN sourceTried
                      ELSE openGenesisSource(req.genesisFile, env.reachable).via
    /\ UNCHANGED <<req, env, persisted, cfg, bs, roots, cur, hops, initOpts>>

\* loadGenesis hands err back to Run (init.go 195-197, 73-75).
ExtractFails(err) ==
    /\ Finish("loadGenesis", err)
    /\ open' = AfterDefers(open \ {"source"}, After("loadGenesis", err))

\* Variant of CarFailed that drops LoadCar's error.
CarFailedIgnored(r) == FALSE

\* Variant of CarFailed that tests for the missing-root error only.
CarFailedOnlyWithoutRoots(r) == r.err = "MissingRootBlock"

\* init.go 273: the check of LoadCar's error.
CarFailed(r) == r.err # "ok"

\* init.go 271-275: car.LoadCar into the block store.
LoadCarStep ==
    /\ pc = "LoadCar"
    /\ LET r == LoadCar(bs, env.archive) IN
         /\ bs' = r.bs
         /\ IF CarFailed(r)
            THEN /\ ExtractFails(r.err)
                 /\ UNCHANGED roots
            ELSE /\ roots' = r.roots
                 /\ pc' = "GetRoot"
                 /\ UNCHANGED <<steps, result, open>>
    /\ UNCHANGED <<req, env, sourceTried, acquired, persisted, cfg, cur, hops, gif, initOpts>>

\* Variant of GetRoot that starts from the last declared root.
GetRootFromLastRoot ==
    /\ pc = "GetRoot"
    /\ IF roots = <<>>
       THEN /\ Panic("loadGenesis")
            /\ UNCHANGED cur
       ELSE LET err == GetBlock(bs, roots[Len(roots)]) IN
            IF err # "ok"
            THEN /\ ExtractFails(err)
                 /\ UNCHANGED cur
            ELSE /\ cur' = roots[Len(roots)]
                 /\ pc' = "Walk"
                 /\ UNCHANGED <<steps, result, open>>
    /\ UNCHANGED <<req, env, sourceTried, acquired, persisted, cfg, bs, roots, hops, gif,
                   initOpts>>

\* Variant of GetRoot that empties the block store when the root block
\* cannot be loaded.
GetRootDiscardingOnFailure ==
    /\ pc = "GetRoot"
    /\ IF roots = <<>>
       THEN /\ Panic("loadGenesis")
            /\ UNCHANGED <<cur, bs>>
       ELSE LET err == GetBlock(bs, roots[1]) IN
            IF err # "ok"
            THEN /\ ExtractFails(err)
                 /\ bs' = EmptyStore
                 /\ UNCHANGED cur
            ELSE /\ cur' = roots[1]
                 /\ pc' = "Walk"
                 /\ UNCHANGED <<steps, result, open, bs>>
    /\ UNCHANGED <<req, env, sourceTried, acquired, persisted, cfg, roots, hops, gif,
                   initOpts>>

\* init.go 278-285: fetch and decode the block at ch.Roots[0]; the index
\* expression panics on an empty root list.
GetRoot ==
    /\ pc = "GetRoot"
    /\ IF roots = <<>>
       THEN /\ Panic("loadGenesis")
            /\ UNCHANGED cur
       ELSE LET err == GetBlock(bs, roots[1]) IN
            IF err # "ok"
            THEN /\ ExtractFails(err)
                 /\ UNCHANGED cur
            ELSE /\ cur' = roots[1]
                 /\ pc' = "Walk"
                 /\ UNCHANGED <<steps, result, open>>
    /\ UNCHANGED <<req, env, sourceTried, acquired, persisted, cfg, bs, roots, hops, gif,
                   initOpts>>

\* Variant of Hop that leaves the loop when the parent cannot be loaded
\* and hands back the block it is at.
HopStopsAtMissingParent ==
    /\ pc = "Walk"
    /\ ~ParentsUndef(bs, cur)
    /\ LET parent == FirstParent(bs, cur)
           err == GetBlock(bs, parent)
       IN  IF err # "ok"
           THEN /\ gif' = [kind |-> "extracted", blk |-> cur]
                /\ Finish("loadGenesis", "ok")
                /\ open' = AfterDefers(open \ {"source"},
                                       After("loadGenesis", "ok"))
                /\ UNCHANGED <<cur, hops>>
           ELSE /\ cur' = parent
                /\ hops' = hops + 1
                /\ UNCHANGED <<pc, steps, result, open, gif>>
    /\ UNCHANGED <<req, env, sourceTried, acquired, persisted, cfg, bs, roots, initOpts>>

\* Variant of Hop whose decoded parent lands in a variable local to the
\* loop body (`cur, err :=`): the walk stays where it is.
HopStaysPut ==
    /\ pc = "Walk"
    /\ ~ParentsUndef(bs, cur)
    /\ LET parent == FirstParent(bs, cur)
           err == GetBlock(bs, parent)
       IN  IF err # "ok"
           THEN /\ ExtractFails(err)
                /\ UNCHANGED <<cur, hops>>
           ELSE UNCHANGED <<cur, hops, pc, steps, result, open>>
    /\ UNCHANGED <<req, env, sourceTried, acquired, persisted, cfg, bs, roots, gif, initOpts>>

\* init.go 291-300: one turn of the loop, from cur to its first parent.
Hop ==
    /\ pc = "Walk"
    /\ ~ParentsUndef(bs, cur)
    /\ LET parent == FirstParent(bs, cur)
           err == GetBlock(bs, parent)
       IN  IF err # "ok"
           THEN /\ ExtractFails(err)
                /\ UNCHANGED <<cur, hops>>
           ELSE /\ cur' = parent
                /\ hops' = hops + 1
                /\ UNCHANGED <<pc, steps, result, open>>
    /\ UNCHANGED <<req, env, sourceTried, acquired, persisted, cfg, bs, roots, gif, initOpts>>

\* Variant of FoundGenesis for a walk that is an `if`, not a loop: the
\* block reached after one hop is taken as the genesis block.
FoundGenesisAfterOneHop ==
    /\ pc = "Walk"
    /\ ParentsUndef(bs, cur) \/ hops >= 1
    /\ gif' = [kind |-> "extracted", blk |-> cur]
    /\ Finish("loadGenesis", "ok")
    /\ open' = AfterDefers(open \ {"source"}, After("loadGenesis", "ok"))
    /\ UNCHANGED <<req, env, sourceTried, acquired, persisted, cfg, bs, roots, cur, hops,
                   initOpts>>

\* init.go 289/291 with Parents undefined, 302-308, then loadGenesis
\* 192-203: the block is wrapped into the InitFunc and the source closed.
FoundGenesis ==
    /\ pc = "Walk"
    /\ ParentsUndef(bs, cur)
    /\ gif' = [kind |-> "extracted", blk |-> cur]
    /\ Finish("loadGenesis", "ok")
    /\ open' = AfterDefers(open \ {"source"}, After("loadGenesis", "ok"))
    /\ UNCHANGED <<req, env, sourceTried, acquired, persisted, cfg, bs, roots, cur, hops,
                   initOpts>>

(***************************************************************************)
(* The later calls of initCmd.Run                                          *)
(***************************************************************************)
\* init.go 77-82, 207-242
GetNodeInitOpts ==
    /\ pc = "getNodeInitOpts"
    /\ LET r == getNodeInitOpts(req.peerKeyFile, env.peerFile,
                                req.walletKeyFile, env.walletFile)
           held == IF r.handleOpen THEN open \cup {"walletFile"} ELSE open
       IN  /\ acquired' = acquired
                \cup (IF req.peerKeyFile # "" /\ env.peerFile # "unreadable"
                      THEN {"peerFile"} ELSE {})
                \cup (IF r.handleOpen THEN {"walletFile"} ELSE {})
           /\ IF r.err = "panic"
              THEN /\ steps' = Append(steps, [name |-> "getNodeInitOpts",
                                              err |-> "panic"])
                   /\ pc' = "done"
                   /\ result' = "panic"
                   /\ open' = held \ {"repo", "source"}
                   /\ UNCHANGED initOpts
              ELSE /\ Finish("getNodeInitOpts", r.err)
                   /\ open' = AfterDefers(held, After("getNodeInitOpts", r.err))
                   /\ initOpts' = r.opts
    /\ UNCHANGED <<req, env, sourceTried, persisted, cfg, bs, roots, cur, hops, gif>>

\* init.go 84-88
SetConfigFromOptions ==
    /\ pc = "setConfigFromOptions"
    /\ LET r == setConfigFromOptions(cfg, req.config) IN
         /\ cfg' = r.cfg
         /\ Finish("setConfigFromOptions", r.err)
         /\ open' = AfterDefers(open, After("setConfigFromOptions", r.err))
    /\ UNCHANGED <<req, env, sourceTried, acquired, persisted, bs, roots, cur, hops, gif,
                   initOpts>>

\* init.go 90-93, 166-181: without the option nothing is done; with it the
\* beacon client is configured through the in-memory Config and may fail,
\* before or after it has written there.
SetDrandConfig ==
    /\ pc = "setDrandConfig"
    /\ IF ~Has(req.drandConfigAddr)
       THEN /\ Finish("setDrandConfig", "ok")
            /\ open' = AfterDefers(open, After("setDrandConfig", "ok"))
            /\ UNCHANGED cfg
       ELSE \E err \in {"ok", "ErrDrand"}, wrote \in BOOLEAN :
              /\ err = "ok" => wrote
              /\ cfg' = IF wrote
                        THEN [cfg EXCEPT !.Drand = "configured.Drand"]
                        ELSE cfg
              /\ Finish("setDrandConfig", err)
              /\ open' = AfterDefers(open, After("setDrandConfig", err))
    /\ UNCHANGED <<req, env, sourceTried, acquired, persisted, bs, roots, cur, hops, gif,
                   initOpts>>

\* init.go 94-97: rep.ReplaceConfig(cfg) writes the config file.
ReplaceConfig ==
    /\ pc = "ReplaceConfig"
    /\ \E err \in {"ok", "ErrReplaceConfig"} :
          /\ persisted' = IF err = "ok" THEN <<cfg>> ELSE persisted
          /\ Finish("ReplaceConfig", err)
          /\ open' = AfterDefers(open, After("ReplaceConfig", err))
    /\ UNCHANGED <<req, env, sourceTried, acquired, cfg, bs, roots, cur, hops, gif, initOpts>>

\* The stores that hold everything s holds, under the same CIDs.
Extensions(s) ==
    {t \in BlockStores : \A c \in DOMAIN s : c \in DOMAIN t /\ t[c] = s[c]}

\* node.Init(ctx, rep, gif, initopts...), the node's bootstrap routine: it
\* is handed the repository whose datastore backs the block store, may
\* write blocks there (the store is append-only for the session) and
\* succeeds or fails; its directives install keys and touch none of the
\* Config fields kept here.
nodeInit(s) ==
    {[err |-> e, bs |-> t] : e \in {"ok", "ErrNodeInit"}, t \in Extensions(s)}

\* init.go 99-105: node.Init with the genesis function and the directives;
\* its error is returned as it is.
NodeInit ==
    /\ pc = "nodeInit"
    /\ \E r \in nodeInit(bs) :
          /\ bs' = r.bs
          /\ Finish("nodeInit", r.err)
          /\ open' = AfterDefers(open, After("nodeInit", r.err))
    /\ UNCHANGED <<req, env, sourceTried, acquired, persisted, cfg, roots, cur, hops,
                   gif, initOpts>>

(***************************************************************************)
(* Inputs                                                                  *)
(***************************************************************************)
\* An archive that is not read, a file that is not named: one fixed value.
NoArchive == [valid |-> FALSE, roots |-> <<>>, blocks |-> EmptyStore]
NoWalletFile == [kind |-> "unopenable", keys |-> <<>>]
NoPeerFile == "unreadable"

Genesis == [decodes |-> TRUE, parents |-> UndefTipSetKey]
ChildOf(c) == [decodes |-> TRUE, parents |-> <<c>>]

Undecodable == [decodes |-> FALSE, parents |-> UndefTipSetKey]

\* Representative archives for the whole command: a lone genesis block, a
\* chain of two, a root that is not in the archive, a root that does not
\* decode, a root whose parent is not in the archive, a root whose parent
\* does not decode, a malformed stream and a stream without roots.
RunArchives ==
    {[valid |-> TRUE, roots |-> <<1>>, blocks |-> (1 :> Genesis)],
     [valid |-> TRUE, roots |-> <<2>>,
      blocks |-> (1 :> Genesis) @@ (2 :> ChildOf(1))],
     [valid |-> TRUE, roots |-> <<2>>, blocks |-> (1 :> Genesis)],
     [valid |-> TRUE, roots |-> <<1>>, blocks |-> (1 :> Undecodable)],
     [valid |-> TRUE, roots |-> <<2>>, blocks |-> (2 :> ChildOf(1))],
     [valid |-> TRUE, roots |-> <<2>>,
      blocks |-> (1 :> Undecodable) @@ (2 :> ChildOf(1))],
     [valid |-> FALSE, roots |-> <<>>, blocks |-> (1 :> Genesis)],
     [valid |-> TRUE, roots |-> <<>>, blocks |-> (1 :> Genesis)]}

\* Genesis inputs: a source name, whether it can be opened, what it holds.
GenesisInputs(names, archives) ==
    {[genesisFile |-> n, reachable |-> FALSE, archive |-> NoArchive] :
        n \in names} \cup
    {[genesisFile |-> n, reachable |-> TRUE, archive |-> a] :
        n \in {m \in names : openGenesisSource(m, TRUE).err = "ok"},
        a \in archives}

\* Key file inputs: the two paths and what is found there.
KeyInputs(peerFiles, walletFiles) ==
    {[peerKeyFile |-> p[1], peerFile |-> p[2],
      walletKeyFile |-> w[1], walletFile |-> w[2]] :
        p \in {<<"", NoPeerFile>>} \cup {<<"peer.key", f>> : f \in peerFiles},
        w \in {<<"", NoWalletFile>>} \cup {<<"wallet.json", f>> : f \in walletFiles}}

RunWalletFiles ==
    {[kind |-> "badjson", keys |-> <<>>],
     [kind |-> "keyinfo", keys |-> <<>>],
     [kind |-> "keyinfo", keys |-> <<"k1", "k2">>]}

RunConfigOptions ==
    {NoConfigOptions,
     [NoConfigOptions EXCEPT !.presealedSectorDir = <<"/presealed">>],
     [NoConfigOptions EXCEPT !.sectorDir = <<"/sectors">>,
                             !.withMiner = <<"zz">>],
     [NoConfigOptions EXCEPT !.withMiner = <<"t01">>,
                             !.presealedSectorDir = <<"/presealed">>,
                             !.network = <<"interop">>],
     [NoConfigOptions EXCEPT !.autoSealIntervalSeconds = <<120>>,
                             !.network = <<"mainnet">>]}

\* Config values handed to setConfigFromOptions when it is checked on its
\* own: the default Config and variations of it.
PriorConfigs ==
    [RootDirPath : {"default.sectors", "/oldsectors"},
     PreSealedSectorsDirPath : {"", "/old"},
     MinerAddress : {Undef, "ID(3)"},
     AutoSealIntervalSeconds : {120, 30},
     Bootstrap : {"default.Bootstrap", "custom.Bootstrap"},
     Drand : {"default.Drand", "custom.Drand"},
     NetworkParams : {"default.Network", "custom.Network"}]

MakeReq(g, k, c, d) ==
    [genesisFile |-> g.genesisFile, peerKeyFile |-> k.peerKeyFile,
     walletKeyFile |-> k.walletKeyFile, config |-> c, drandConfigAddr |-> d]

MakeEnv(g, k) ==
    [reachable |-> g.reachable, archive |-> g.archive,
     peerFile |-> k.peerFile, walletFile |-> k.walletFile]

NoGenesisInput == [genesisFile |-> "", reachable |-> FALSE, archive |-> NoArchive]
NoKeyInput ==
    [peerKeyFile |-> "", peerFile |-> NoPeerFile,
     walletKeyFile |-> "", walletFile |-> NoWalletFile]

(***************************************************************************)
(* Specifications                                                          *)
(***************************************************************************)
\* The state Run is in when it reaches the call at, every earlier call
\* having succeeded with nothing found to resolve or build.
StateAt(at) ==
    /\ pc = at
    /\ result = "none"
    /\ steps = [i \in 1..(IndexOf(at) - 1) |-> [name |-> RunOrder[i], err |-> "ok"]]
    /\ open = IF IndexOf(at) > IndexOf("OpenFSRepo") THEN {"repo"} ELSE {}
    /\ acquired = open
    /\ persisted = IF IndexOf(at) > IndexOf("InitFSRepo")
                   THEN <<NewDefaultConfig>> ELSE <<>>
    /\ sourceTried = "none"
    /\ bs = EmptyStore
    /\ roots = <<>>
    /\ cur = 0
    /\ hops = 0
    /\ gif = IF IndexOf(at) > IndexOf("loadGenesis")
             THEN [kind |-> "gengen", blk |-> 0] ELSE NoGif
    /\ initOpts = <<>>

\* The whole command.
Init ==
    /\ \E g \in GenesisInputs({"", "genesis.car", "https://host/genesis.car"},
                               RunArchives),
          k \in KeyInputs({"badkey", "p1"}, RunWalletFiles),
          c \in RunConfigOptions,
          d \in Opt({"drand.example:443"}) :
          /\ req = MakeReq(g, k, c, d)
          /\ env = MakeEnv(g, k)
    /\ cfg = NewDefaultConfig
    /\ StateAt("GetRepoPath")

Next ==
    \/ GetRepoPath
    \/ Emit
    \/ InitFSRepo
    \/ OpenFSRepo
    \/ LoadGenesis
    \/ LoadCarStep
    \/ GetRoot
    \/ Hop
    \/ FoundGenesis
    \/ GetNodeInitOpts
    \/ SetConfigFromOptions
    \/ SetDrandConfig
    \/ ReplaceConfig
    \/ NodeInit

Spec == Init /\ [][Next]_vars

\* loadGenesis on every source name and archive within the bounds.
InitGenesis ==
    /\ \E g \in GenesisInputs(SourceNames, Archives) :
          /\ req = MakeReq(g, NoKeyInput, NoConfigOptions, <<>>)
          /\ env = MakeEnv(g, NoKeyInput)
    /\ cfg = NewDefaultConfig
    /\ StateAt("loadGenesis")

NextGenesis ==
    \/ LoadGenesis
    \/ LoadCarStep
    \/ GetRoot
    \/ Hop
    \/ FoundGenesis

SpecGenesis == InitGenesis /\ [][NextGenesis]_vars

\* The same, with the progress the code makes.  Opening the source
\* (http.Get without a timeout at 253, os.Open at 261) and car.LoadCar's
\* reads of it (272) wait on the outside world without a deadline, so
\* nothing makes LoadGenesis or LoadCarStep happen: a run may stay there
\* for ever.  From the root fetch on (278-308) the code runs on its own
\* thread over the loaded store, so a step that can be taken is taken.
SpecGenesisLive ==
    SpecGenesis /\ WF_vars(GetRoot \/ Hop \/ FoundGenesis)

\* getNodeInitOpts on every pair of key files within the bounds.
InitOpts ==
    /\ \E k \in KeyInputs(PeerFiles, WalletFiles) :
          /\ req = MakeReq(NoGenesisInput, k, NoConfigOptions, <<>>)
          /\ env = MakeEnv(NoGenesisInput, k)
    /\ cfg = NewDefaultConfig
    /\ StateAt("getNodeInitOpts")

NextOpts == GetNodeInitOpts

SpecOpts == InitOpts /\ [][NextOpts]_vars

\* setConfigFromOptions on every option map and prior Config.
InitSynth ==
    /\ \E c \in ConfigOptions :
          /\ req = MakeReq(NoGenesisInput, NoKeyInput, c, <<>>)
          /\ env = MakeEnv(NoGenesisInput, NoKeyInput)
    /\ cfg \in PriorConfigs
    /\ StateAt("setConfigFromOptions")

NextSynth == SetConfigFromOptions

SpecSynth == InitSynth /\ [][NextSynth]_vars

(***************************************************************************)
(* Properties                                                              *)
(***************************************************************************)
\* The error the call named name returned, "none" if it was not made.
StepErr(name) ==
    IF \E i \in 1..Len(steps) : steps[i].name = name
    THEN steps[CHOOSE i \in 1..Len(steps) : steps[i].name = name].err
    ELSE "none"

\* loadGenesis is over, one way or another.
ExtractionOver == StepErr("loadGenesis") # "none"

\* ch lists, genesis first, the CIDs of a linear chain held in store s.
LinearChain(s, ch) ==
    /\ Len(ch) >= 1
    /\ NoDup(ch)
    /\ \A i \in 1..Len(ch) : ch[i] \in DOMAIN s /\ s[ch[i]].decodes
    /\ s[ch[1]].parents = UndefTipSetKey
    /\ \A i \in 2..Len(ch) : s[ch[i]].parents = <<ch[i - 1]>>

\* The archive was loaded and its first root heads the chain ch.
RootHeads(ch) ==
    /\ roots # <<>>
    /\ Len(ch) >= 1
    /\ roots[1] = ch[Len(ch)]
    /\ LinearChain(bs, ch)

\* C1: when the block store holds a linear chain of N blocks whose head is
\* the archive's first root, extraction succeeds, returns the chain's
\* parentless block and has made exactly N-1 parent hops.
C1_LinearChainGenesis ==
    (ExtractionOver /\ roots # <<>>) =>
        \A ch \in SeqsUpTo(Cids, NumCids) :
            RootHeads(ch) =>
                /\ StepErr("loadGenesis") = "ok"
                /\ gif = [kind |-> "extracted", blk |-> ch[1]]
                /\ hops = Len(ch) - 1

\* A chain of three was walked: two hops, from the root 3 down to 1.
C1_Witness ==
    /\ ExtractionOver
    /\ RootHeads(<<1, 2, 3>>)
    /\ gif = [kind |-> "extracted", blk |-> 1]
    /\ hops = 2

\* The archive source was opened and held a well-formed stream that
\* declares no root.
EmptyRootArchiveRead ==
    /\ req.genesisFile # ""
    /\ openGenesisSource(req.genesisFile, env.reachable).err = "ok"
    /\ env.archive.valid
    /\ env.archive.roots = <<>>

\* C2: an archive with an empty root list ends extraction in the
\* MissingRootBlock error; no block is returned and nothing else happens
\* (no panic on the first root).
C2_EmptyRootsRejected ==
    (ExtractionOver /\ EmptyRootArchiveRead) =>
        /\ result = "MissingRootBlock"
        /\ gif = NoGif
        /\ cur = 0

C2_Witness ==
    /\ EmptyRootArchiveRead
    /\ result = "MissingRootBlock"
    /\ DOMAIN env.archive.blocks # {}

\* presealed-sector-dir is given and neither miner address option is.
PresealedWithoutMiner(o) ==
    /\ Has(o.presealedSectorDir)
    /\ ~Has(o.withMiner)
    /\ ~Has(o.minerActorAddress)

\* C3: on a Config whose miner address is unset (as in the default Config
\* the command passes), synthesis with presealed-sector-dir and without
\* with-miner and miner-actor-address fails with InvalidOption whatever
\* the other options are, and leaves the pre-sealed sector path alone.
C3_PresealedNeedsMiner ==
    [][(/\ pc = "setConfigFromOptions"
        /\ cfg.MinerAddress = Undef
        /\ PresealedWithoutMiner(req.config))
       => (/\ result' \in InvalidOption
           /\ cfg'.PreSealedSectorsDirPath = cfg.PreSealedSectorsDirPath)]_vars

\* The case happened with every other option present and acceptable.
C3_Witness ==
    /\ StepErr("setConfigFromOptions") = "PresealedNeedsMiner"
    /\ PresealedWithoutMiner(req.config)
    /\ Has(req.config.sectorDir)
    /\ Has(req.config.autoSealIntervalSeconds)
    /\ NetName(req.config) = "testnet"
    /\ cfg.PreSealedSectorsDirPath = ""

\* C4: the Config is persisted by ReplaceConfig only after
\* setConfigFromOptions and setDrandConfig have both succeeded, never in
\* a run where one of them failed; the config file therefore only ever
\* holds the default Config or the fully validated one.
C4_PersistAfterValidation ==
    /\ StepErr("ReplaceConfig") # "none" =>
          /\ StepErr("setConfigFromOptions") = "ok"
          /\ StepErr("setDrandConfig") = "ok"
    /\ persisted # <<>> =>
          \/ persisted[1] = NewDefaultConfig
          \/ /\ StepErr("setConfigFromOptions") = "ok"
             /\ StepErr("setDrandConfig") = "ok"
             /\ StepErr("ReplaceConfig") = "ok"
             /\ persisted[1] = cfg

\* A synthesized, drand-configured Config different from the default one
\* was persisted.
C4_Witness ==
    /\ StepErr("ReplaceConfig") = "ok"
    /\ Has(req.drandConfigAddr)
    /\ persisted = <<cfg>>
    /\ cfg.MinerAddress # Undef
    /\ cfg.Drand = "configured.Drand"

\* C5: the calls are made in program order; a call is made only if every
\* call before it succeeded; the command's outcome is the failing call's
\* error, and it is success only when all the calls were made and
\* succeeded.
C5_FailFast ==
    /\ Len(steps) <= Len(RunOrder)
    /\ \A i \in 1..Len(steps) : steps[i].name = RunOrder[i]
    /\ \A i \in 1..(Len(steps) - 1) : steps[i].err = "ok"
    /\ (Len(steps) > 0 /\ steps[Len(steps)].err # "ok") =>
          (pc = "done" /\ result = steps[Len(steps)].err)
    /\ pc = "done" => (Len(steps) > 0 /\ result = steps[Len(steps)].err)
    /\ result = "ok" =>
          /\ Len(steps) = Len(RunOrder)
          /\ \A i \in 1..Len(steps) : steps[i].err = "ok"
    /\ (pc # "done") = (result = "none")

\* The command stopped at a failed setDrandConfig: nothing was persisted
\* beyond the default Config and the node was not initialized.
C5_Witness ==
    /\ pc = "done"
    /\ result = "ErrDrand"
    /\ Len(steps) = IndexOf("setDrandConfig")
    /\ persisted = <<NewDefaultConfig>>

\* C6: when the command has returned, nothing it opened is still open.
C6_AllReleased == pc = "done" => open = {}

\* The peer key file and the wallet key file can be read.
PeerOk == req.peerKeyFile = "" \/ env.peerFile \in PeerKeys
WalletListed ==
    req.walletKeyFile # "" /\ env.walletFile.kind = "keyinfo"

OptsOver == StepErr("getNodeInitOpts") # "none"
OptsOk == StepErr("getNodeInitOpts") = "ok"

\* The directives the design asks for, for the key list keys.
WalletDirectives(keys) ==
    [i \in 1..Len(keys) |->
        IF i = 1 THEN DefaultKeyOpt(keys[1]) ELSE ImportKeyOpt(keys[i])]

PeerDirectives ==
    IF req.peerKeyFile # "" THEN <<PeerKeyOpt(env.peerFile)>> ELSE <<>>

IsWalletDirective(d) == d.op \in {"DefaultKey", "ImportKey"}

\* C7: a key list [K1..Kn], n >= 1, gives SetDefault(K1), Import(K2), ...,
\* Import(Kn) in that order, after the peer identity directive if a peer
\* key file is given; no wallet file gives no wallet directive; neither
\* file gives the empty list and no error.
C7_DirectiveOrder ==
    /\ (OptsOver /\ PeerOk /\ WalletListed /\ Len(env.walletFile.keys) >= 1) =>
          /\ OptsOk
          /\ initOpts = PeerDirectives \o WalletDirectives(env.walletFile.keys)
    /\ (OptsOk /\ req.peerKeyFile # "") =>
          /\ Len(initOpts) >= 1
          /\ initOpts[1] = PeerKeyOpt(env.peerFile)
          /\ \A i \in 2..Len(initOpts) : IsWalletDirective(initOpts[i])
    /\ (OptsOver /\ PeerOk /\ req.walletKeyFile = "") =>
          /\ OptsOk
          /\ \A i \in 1..Len(initOpts) : ~IsWalletDirective(initOpts[i])
    /\ (OptsOver /\ req.peerKeyFile = "" /\ req.walletKeyFile = "") =>
          (OptsOk /\ initOpts = <<>>)

\* A peer key and three wallet keys gave four directives.
C7_Witness ==
    /\ OptsOk
    /\ req.peerKeyFile # ""
    /\ env.walletFile.keys = <<"k2", "k1", "k2">>
    /\ initOpts = <<PeerKeyOpt("p1"), DefaultKeyOpt("k2"), ImportKeyOpt("k1"),
                    ImportKeyOpt("k2")>>

\* C8: a wallet key file that decodes to an empty key list is not an
\* error: getNodeInitOpts returns normally, with no wallet directive.
C8_EmptyKeyListAccepted ==
    (OptsOver /\ PeerOk /\ WalletListed /\ env.walletFile.keys = <<>>) =>
        /\ OptsOk
        /\ initOpts = PeerDirectives

\* Both miner address options are given and both parse.
BothMinersParse(o) ==
    /\ Has(o.withMiner)
    /\ Has(o.minerActorAddress)
    /\ NewFromString(Val(o.withMiner)).err = "ok"
    /\ NewFromString(Val(o.minerActorAddress)).err = "ok"

\* No option other than the two miner addresses makes synthesis fail.
OthersAccepted(o) ==
    /\ NetName(o) \in {"", "interop", "testnet"}
    /\ Has(o.presealedSectorDir) =>
          NewFromString(Val(o.minerActorAddress)).addr # Undef

\* C9: with miner-actor-address = X and with-miner = Y both valid, the
\* Config's miner address is X whatever it was before, the miner options
\* raise no error, and synthesis succeeds unless another option fails.
C9_MinerActorAddressWins ==
    [][(pc = "setConfigFromOptions" /\ BothMinersParse(req.config))
       => (/\ cfg'.MinerAddress =
                 NewFromString(Val(req.config.minerActorAddress)).addr
           /\ StepErr("setConfigFromOptions")' # "InvalidAddress"
           /\ OthersAccepted(req.config) =>
                 StepErr("setConfigFromOptions")' = "ok")]_vars

C9_Witness ==
    /\ StepErr("setConfigFromOptions") = "ok"
    /\ req.config.minerActorAddress = <<"t01">>
    /\ req.config.withMiner = <<"t02">>
    /\ cfg.MinerAddress = "ID(1)"

SynthOver == StepErr("setConfigFromOptions") # "none"
SynthOk == StepErr("setConfigFromOptions") = "ok"

NetworkTriple(c) ==
    [Bootstrap |-> c.Bootstrap, Drand |-> c.Drand, Network |-> c.NetworkParams]

\* C10: a network name other than "", "interop" and "testnet" makes
\* synthesis fail with InvalidOption; when synthesis succeeds with
\* "interop" or "testnet" the Config's bootstrap, drand and network
\* parameters are that network's preset, whatever they were before.
C10_NetworkPresets ==
    /\ (SynthOver /\ NetName(req.config) \notin {"", "interop", "testnet"}) =>
          StepErr("setConfigFromOptions") \in InvalidOption
    /\ (SynthOk /\ NetName(req.config) = "interop") =>
          NetworkTriple(cfg) = InteropNet
    /\ (SynthOk /\ NetName(req.config) = "testnet") =>
          NetworkTriple(cfg) = TestNet

C10_Witness ==
    /\ SynthOk
    /\ NetName(req.config) = "testnet"
    /\ NetworkTriple(cfg) = TestNet
    /\ cfg.MinerAddress = "ID(3)"

\* path lists the CIDs of blocks held in store s, each the first parent
\* of the one before it.
FirstParentPath(s, path) ==
    /\ Len(path) >= 1
    /\ \A i \in 1..Len(path) : path[i] \in DOMAIN s /\ s[path[i]].decodes
    /\ \A i \in 1..(Len(path) - 1) :
          /\ s[path[i]].parents # UndefTipSetKey
          /\ path[i + 1] = s[path[i]].parents[1]

\* The blocks the walk went through on its way to the block it returned.
WalkedPaths ==
    {path \in SeqsUpTo(Cids, NumCids) :
        /\ FirstParentPath(bs, path)
        /\ path[1] = roots[1]
        /\ path[Len(path)] = gif.blk}

Range(f) == {f[i] : i \in DOMAIN f}

\* C11 as claimed: a block is returned only if no block the walk went
\* through names a parent CID that is absent from the store.
C11_NoDanglingParent ==
    gif.kind = "extracted" =>
        \A path \in WalkedPaths : \A i \in 1..Len(path) :
            Range(bs[path[i]].parents) \subseteq DOMAIN bs

\* C11, amended: when the first CID of the Parents of the block the walk
\* is at is absent from the store, extraction ends there in a load
\* failure and returns no block; and a block that is returned has
\* undefined Parents.  Later CIDs of Parents are not looked at.
C11_NoDanglingFirstParent ==
    [][/\ (/\ pc = "Walk"
           /\ ~ParentsUndef(bs, cur)
           /\ FirstParent(bs, cur) \notin DOMAIN bs)
          => (/\ pc' = "done"
              /\ result' = "SourceUnavailable"
              /\ gif' = NoGif)
       /\ (gif'.kind = "extracted" /\ gif.kind # "extracted")
          => (gif'.blk \in DOMAIN bs' /\ ParentsUndef(bs', gif'.blk))]_vars

\* After one hop the walk met a block whose first parent is missing.
C11_Witness ==
    /\ result = "SourceUnavailable"
    /\ hops = 1
    /\ cur \in DOMAIN bs
    /\ bs[cur].parents # UndefTipSetKey
    /\ bs[cur].parents[1] \notin DOMAIN bs
    /\ gif = NoGif

\* The loader has returned the roots and extractGenesisBlock is at the
\* root fetch or in the loop over the parents.
InWalk == pc \in {"GetRoot", "Walk"}

HttpNames == {"http://host/genesis.car", "https://host/genesis.car"}
OtherSchemeNames == {"ftp://host/genesis.car"}
UnparsableNames == {"%zz"}

\* loadGenesis has looked at the source name.
Dispatched == pc # "loadGenesis"

SourceOpened == "source" \in acquired

\* The source was asked for with the call how; the call's failure is the
\* SourceUnavailable error, its success an opened source.
AskedFor(how) ==
    /\ sourceTried = how
    /\ env.reachable => SourceOpened
    /\ ~env.reachable => (result = "SourceUnavailable" /\ ~SourceOpened)

\* The empty name, http(s) URLs and URLs of another scheme.
DispatchOfSchemes ==
    /\ req.genesisFile = "" =>
          /\ gif.kind = "gengen"
          /\ sourceTried = "none"
          /\ ~SourceOpened
          /\ bs = EmptyStore
    /\ req.genesisFile \in HttpNames => AskedFor("http")
    /\ req.genesisFile \in OtherSchemeNames =>
          /\ result = "UnsupportedScheme"
          /\ sourceTried = "none"
          /\ ~SourceOpened

MalformedArchiveRead ==
    /\ SourceOpened
    /\ ~env.archive.valid

\* C14: a stream that is not a valid archive ends extraction in the
\* loader's MalformedArchive error: no root is fetched, no parent hop is
\* made and no block is returned.
C14_MalformedArchiveRejected ==
    (MalformedArchiveRead /\ pc # "LoadCar") =>
        /\ result = "MalformedArchive"
        /\ StepErr("loadGenesis") = "MalformedArchive"
        /\ roots = <<>>
        /\ cur = 0
        /\ hops = 0
        /\ gif = NoGif

\* The stream broke off after a chain of two blocks had been decoded.
C14_Witness ==
    /\ MalformedArchiveRead
    /\ result = "MalformedArchive"
    /\ DOMAIN env.archive.blocks = {1, 2}
    /\ env.archive.blocks[2].parents = <<1>>
    /\ gif = NoGif

\* What a walk along first parents finds in store s from CID c on: the
\* parentless block it arrives at, or the failure to load a block.
RECURSIVE FirstParentWalk(_, _)
FirstParentWalk(s, c) ==
    IF c \notin DOMAIN s THEN [err |-> "SourceUnavailable", blk |-> 0]
    ELSE IF ~s[c].decodes THEN [err |-> "DecodeFailure", blk |-> 0]
    ELSE IF s[c].parents = UndefTipSetKey THEN [err |-> "ok", blk |-> c]
    ELSE FirstParentWalk(s, s[c].parents[1])

\* C15: the outcome of extraction is settled by the blocks loaded and the
\* first root alone, so archives that agree on these and differ in their
\* other roots have the same outcome; further roots are not an error.
C15_OnlyFirstRootUsed ==
    (ExtractionOver /\ roots # <<>>) =>
        LET found == FirstParentWalk(bs, roots[1]) IN
        /\ StepErr("loadGenesis") = found.err
        /\ found.err = "ok" => gif = [kind |-> "extracted", blk |-> found.blk]
        /\ found.err # "ok" => gif = NoGif

\* A chain was walked from the first root although the second root is
\* not among the blocks loaded.
C15_Witness ==
    /\ ExtractionOver
    /\ Len(roots) = 2
    /\ roots[2] \notin DOMAIN bs
    /\ gif = [kind |-> "extracted", blk |-> 1]
    /\ hops = 1

\* What the loader wrote into the (new, empty) store from the archive.
WrittenByLoader == LoadCar(EmptyStore, env.archive).bs

\* C16: no step of genesis resolution or of the later calls of the
\* command, the node's bootstrap routine included, takes a block out of
\* the store or changes the bytes held under a CID, and once the loader
\* has run the store holds all it wrote, also after a failure of the
\* loader, of the root fetch, of a parent hop or of option validation.
C16_StoreAppendOnly ==
    /\ [][\A c \in DOMAIN bs : c \in DOMAIN bs' /\ bs'[c] = bs[c]]_vars
    /\ []((SourceOpened /\ pc # "LoadCar") =>
            \A c \in DOMAIN WrittenByLoader :
                c \in DOMAIN bs /\ bs[c] = WrittenByLoader[c])

\* The command failed at a parent hop, on a parent that is stored but
\* does not decode, and both blocks the loader wrote are still there.
C16_Witness ==
    /\ pc = "done"
    /\ result = "DecodeFailure"
    /\ roots = <<2>>
    /\ cur = 2
    /\ DOMAIN WrittenByLoader = {1, 2}
    /\ bs = WrittenByLoader
    /\ bs[2].decodes
    /\ FirstParent(bs, 2) = 1
    /\ ~bs[1].decodes

\* C17: a block returned by extractGenesisBlock is in the store, decodes,
\* has the undefined parents key, and ends a path that starts at the
\* archive's first root and goes from each block to the first CID of its
\* parents; no block with parents is ever returned as genesis.
C17_ReturnedBlockIsGenesis ==
    gif.kind = "extracted" =>
        /\ gif.blk \in DOMAIN bs
        /\ bs[gif.blk].decodes
        /\ ParentsUndef(bs, gif.blk)
        /\ roots # <<>>
        /\ WalkedPaths # {}

\* The root has two stored parentless parents and the walk returned the
\* first of them.
C17_Witness ==
    /\ ExtractionOver
    /\ gif.kind = "extracted"
    /\ roots # <<>>
    /\ Len(bs[roots[1]].parents) = 2
    /\ \A i \in 1..2 : /\ bs[roots[1]].parents[i] \in DOMAIN bs
                        /\ ParentsUndef(bs, bs[roots[1]].parents[i])
    /\ gif.blk = bs[roots[1]].parents[1]

\* C18: a successful setConfigFromOptions leaves every Config field whose
\* option is absent at the value it had before: the sector root path
\* without sectorDir, the miner address without withMiner and
\* minerActorAddress, the auto-seal interval without
\* autoSealIntervalSeconds, the pre-sealed sector path without
\* presealedSectorDir, and the bootstrap, drand and network parameters
\* when the network name is absent or ""; with no option at all it
\* succeeds and the Config is what it was.
C18_OnlyNamedFieldsChange ==
    [][pc = "setConfigFromOptions" =>
        /\ SynthOk' =>
            /\ ~Has(req.config.sectorDir) =>
                  cfg'.RootDirPath = cfg.RootDirPath
            /\ (~Has(req.config.withMiner) /\ ~Has(req.config.minerActorAddress)) =>
                  cfg'.MinerAddress = cfg.MinerAddress
            /\ ~Has(req.config.autoSealIntervalSeconds) =>
                  cfg'.AutoSealIntervalSeconds = cfg.AutoSealIntervalSeconds
            /\ ~Has(req.config.presealedSectorDir) =>
                  cfg'.PreSealedSectorsDirPath = cfg.PreSealedSectorsDirPath
            /\ NetName(req.config) = "" =>
                  NetworkTriple(cfg') = NetworkTriple(cfg)
        /\ req.config = NoConfigOptions => (SynthOk' /\ cfg' = cfg)
    ]_vars

\* Synthesis succeeded with no option on a Config that differed from the
\* defaults in every field, and the Config still does.
C18_Witness ==
    /\ SynthOk
    /\ req.config = NoConfigOptions
    /\ cfg = [RootDirPath |-> "/oldsectors",
              PreSealedSectorsDirPath |-> "/old",
              MinerAddress |-> "ID(3)",
              AutoSealIntervalSeconds |-> 30,
              Bootstrap |-> "custom.Bootstrap",
              Drand |-> "custom.Drand",
              NetworkParams |-> "custom.Network"]
====
